---- MODULE Spec2Model ----
(***************************************************************************)
(* tableauserverclient/server/endpoint/endpoint.py: the Endpoint request   *)
(* gateway (_make_common_headers, _make_request, _check_status and the     *)
(* five verb entry points) and the api(version) decorator.                 *)
(*                                                                         *)
(* Python values are modelled as follows.  A str is a TLA+ string, a bytes *)
(* object a sequence of byte values, a dict a function whose domain is the *)
(* set of its keys.  None is the string None where a str is expected and   *)
(* the record NoneObj where a dict or a response is expected.  A version   *)
(* string is a sequence of one-character strings, so that parsing it is a  *)
(* computation.                                                            *)
(***************************************************************************)
EXTENDS Integers, Sequences, FiniteSets, TLC

VARIABLES
    auth_token,     \* parent_srv.auth_token
    version,        \* parent_srv.version
    http_options,   \* parent_srv.http_options
    last,           \* the gateway call that has just completed, or Idle
    gate            \* the call through an api(version) wrapper that has just completed, or Idle

vars == <<auth_token, version, http_options, last, gate>>

None == "<None>"
NoneObj == [type |-> "NoneType"]
Idle == [op |-> "idle"]

----------------------------------------------------------------------------
(* Bounds of the model *)

\* longest response body, in bytes
MaxBodyLen == 2
\* most components of a dotted version string
MaxComponents == 3

ComponentValues == {2, 9, 10}

\* 0x41 'A'; 0xC3 0xA9 is the UTF-8 encoding of U+00E9, and neither byte is valid alone
Bytes == {65, 195, 169}
Bodies == UNION {[1..n -> Bytes] : n \in 0..MaxBodyLen}
Encodings == {None, "", "utf-8", "ISO-8859-1"}
StatusCodes == {200, 201, 202, 204, 404, 500}
Tokens == {"", "t1", "t2"}
OptionKeys == {"timeout", "headers"}
ContentTypes == {None, "", "text/xml", "application/json"}
Url == "https://srv/api/sites"
XmlRequest == "<tsRequest/>"
RequestObjects == {None, "pageSize=10"}

\* the decimal digits, as the characters of a version string
DigitChar(d) == <<"0", "1", "2", "3", "4", "5", "6", "7", "8", "9">>[d + 1]

RECURSIVE Digits(_)
Digits(n) == IF n < 10 THEN <<DigitChar(n)>> ELSE Digits(n \div 10) \o <<DigitChar(n % 10)>>

RECURSIVE Dotted(_)
Dotted(c) == IF Len(c) = 1 THEN Digits(c[1]) ELSE Digits(c[1]) \o <<".">> \o Dotted(Tail(c))

\* Tableau REST API versions are major.minor, here with up to MaxComponents components
VersionStrings == {Dotted(c) : c \in UNION {[1..n -> ComponentValues] : n \in 2..MaxComponents}}

\* what a wrapped operation is called with, and what it does when it runs
Arguments == {"a1", "a2"}
Behaviours == {[kind |-> "return", value |-> "r1"], [kind |-> "return", value |-> "r2"],
               [kind |-> "raise", error |-> "ServerResponseError"]}

----------------------------------------------------------------------------
(* dict helpers *)

EmptyDict == << >>

\* d[k] = v
DictSet(d, k, v) == [x \in DOMAIN d \cup {k} |-> IF x = k THEN v ELSE d[x]]

\* d.update(e)
DictUpdate(d, e) == [x \in DOMAIN d \cup DOMAIN e |-> IF x \in DOMAIN e THEN e[x] ELSE d[x]]

\* the dicts over the option keys in which every value is v
OptionDicts(v) == UNION {[K -> {[value |-> v]}] : K \in SUBSET OptionKeys}

----------------------------------------------------------------------------
(* Collaborators that are not defined in endpoint.py *)

\* the transport: session.get/put/post/delete return a response or raise
Responses == [type : {"Response"}, status_code : StatusCodes, content : Bodies, encoding : Encodings]
TransportResults == Responses \cup {[type |-> "TransportError"]}

\* RequestOptions.apply_query_params(url)
apply_query_params(request_object, url) == url \o "?" \o request_object

\* bytes.decode(encoding) for the encodings of the model: UTF-8
RECURSIVE decode_utf8(_)
decode_utf8(content) ==
    IF content = << >> THEN [ok |-> TRUE, text |-> << >>]
    ELSE IF content[1] < 128
    THEN LET rest == decode_utf8(Tail(content))
         IN  IF rest.ok THEN [ok |-> TRUE, text |-> <<content[1]>> \o rest.text] ELSE rest
    ELSE IF content[1] \in 194..223 /\ Len(content) >= 2 /\ content[2] \in 128..191
    THEN LET rest == decode_utf8(Tail(Tail(content)))
         IN  IF rest.ok
             THEN [ok |-> TRUE, text |-> <<(content[1] - 192) * 64 + (content[2] - 128)>> \o rest.text]
             ELSE rest
    ELSE [ok |-> FALSE, text |-> << >>]

\* ISO-8859-1 maps every byte to the code point of the same number
decode(content, encoding) ==
    IF encoding = "utf-8" THEN decode_utf8(content) ELSE [ok |-> TRUE, text |-> content]

\* ServerResponseError.from_response(content): the parsed error detail, or a
\* synthesized fallback that carries the raw body when the body does not parse
from_response(content) ==
    [type |-> "ServerResponseError",
     summary |-> IF decode_utf8(content).ok /\ content # << >> THEN "parsed" ELSE "Unknown",
     detail |-> content]

----------------------------------------------------------------------------
(* Endpoint *)

Success_codes == {200, 201, 204}

_make_common_headers_truthy(token, content_type) ==
    LET h0 == EmptyDict
        h1 == IF token # None /\ token # "" THEN DictSet(h0, "x-tableau-auth", token) ELSE h0
    IN  IF content_type # None /\ content_type # "" THEN DictSet(h1, "content-type", content_type) ELSE h1

_make_common_headers(token, content_type) ==
    LET h0 == EmptyDict
        h1 == IF token # None THEN DictSet(h0, "x-tableau-auth", token) ELSE h0
    IN  IF content_type # None THEN DictSet(h1, "content-type", content_type) ELSE h1

_check_status_lenient(server_response) ==
    IF server_response.status_code >= 500
    THEN [kind |-> "raise", error |-> from_response(server_response.content)]
    ELSE [kind |-> "ok"]

\* raises ServerResponseError unless the status is a success code
_check_status(server_response) ==
    IF server_response.status_code \notin Success_codes
    THEN [kind |-> "raise", error |-> from_response(server_response.content)]
    ELSE [kind |-> "ok"]

\* parameters = parameters or {}: None and the empty dict are replaced by a new dict
IsFreshDict(parameters) == parameters = NoneObj \/ parameters = EmptyDict

merge_parameters_caller_wins(parameters, options) ==
    DictUpdate(options, IF IsFreshDict(parameters) THEN EmptyDict ELSE parameters)

\* parameters = parameters or {}; parameters.update(self.parent_srv.http_options)
merge_parameters(parameters, options) ==
    DictUpdate(IF IsFreshDict(parameters) THEN EmptyDict ELSE parameters, options)

is_text_response_always(server_response) == TRUE

\* if server_response.encoding:
is_text_response(server_response) ==
    server_response.encoding # None /\ server_response.encoding # ""

\* _make_request against the transport's result; the record holds what the
\* transport received (url, sent), what became of the caller's parameters
\* object (parameters_after), whether the body was decoded, the messages
\* logged, and how the call ended (outcome, with the value returned)
_make_request(url, content, request_object, token, content_type, parameters, result) ==
    LET url1 == IF request_object # None THEN apply_query_params(request_object, url) ELSE url
        p1 == merge_parameters(parameters, http_options)
        p2 == DictSet(p1, "headers", _make_common_headers(token, content_type))
        p3 == IF content # None THEN DictSet(p2, "data", content) ELSE p2
        dispatch == [url |-> url1, sent |-> p3, response |-> result,
                     parameters_after |-> IF IsFreshDict(parameters) THEN parameters ELSE p3]
    IN  IF result.type = "TransportError"
        THEN dispatch @@ [decoded |-> FALSE, logged |-> << >>,
                          outcome |-> [kind |-> "raise", error |-> [type |-> "TransportError"]],
                          value |-> NoneObj]
        ELSE LET status == _check_status(result)
                 text == decode(result.content, result.encoding)
             IN  IF status.kind = "raise"
                 THEN dispatch @@ [decoded |-> FALSE, logged |-> << >>,
                                   outcome |-> [kind |-> "raise", error |-> status.error],
                                   value |-> NoneObj]
                 ELSE IF ~is_text_response(result)
                 THEN dispatch @@ [decoded |-> FALSE, logged |-> << >>,
                                   outcome |-> [kind |-> "return"], value |-> result]
                 ELSE IF ~text.ok
                 THEN dispatch @@ [decoded |-> TRUE, logged |-> << >>,
                                   outcome |-> [kind |-> "raise", error |-> [type |-> "UnicodeDecodeError"]],
                                   value |-> NoneObj]
                 ELSE dispatch @@ [decoded |-> TRUE, logged |-> <<text.text>>,
                                   outcome |-> [kind |-> "return"], value |-> result]

\* the arguments of a verb entry point, kept with the call
Call(op, token, content_type, parameters, r) ==
    [op |-> op, token |-> token, content_type |-> content_type, parameters |-> parameters] @@ r

Session == UNCHANGED <<auth_token, version, http_options, gate>>

get_unauthenticated_request ==
    /\ last = Idle
    /\ \E request_object \in RequestObjects, result \in TransportResults :
            /\ last' = Call("get_unauthenticated", None, None, NoneObj,
                            _make_request(Url, None, request_object, None, None, NoneObj, result))
            /\ Session

get_request_no_token ==
    /\ last = Idle
    /\ \E request_object \in RequestObjects, parameters \in {NoneObj} \cup OptionDicts("caller"),
          result \in TransportResults :
            /\ last' = Call("get", None, None, parameters,
                            _make_request(Url, None, request_object, None, None, parameters, result))
            /\ Session

get_request ==
    /\ last = Idle
    /\ \E request_object \in RequestObjects, parameters \in {NoneObj} \cup OptionDicts("caller"),
          result \in TransportResults :
            /\ last' = Call("get", auth_token, None, parameters,
                            _make_request(Url, None, request_object, auth_token, None, parameters, result))
            /\ Session

delete_request_returns_response ==
    /\ last = Idle
    /\ \E result \in TransportResults :
            /\ last' = Call("delete", auth_token, None, NoneObj,
                            _make_request(Url, None, None, auth_token, None, NoneObj, result))
            /\ Session

\* the response is dropped: nothing is returned
delete_request ==
    /\ last = Idle
    /\ \E result \in TransportResults :
            /\ last' = [Call("delete", auth_token, None, NoneObj,
                             _make_request(Url, None, None, auth_token, None, NoneObj, result))
                        EXCEPT !.value = NoneObj]
            /\ Session

put_request ==
    /\ last = Idle
    /\ \E content_type \in ContentTypes, result \in TransportResults :
            /\ last' = Call("put", auth_token, content_type, NoneObj,
                            _make_request(Url, XmlRequest, None, auth_token, content_type, NoneObj, result))
            /\ Session

post_request ==
    /\ last = Idle
    /\ \E content_type \in ContentTypes, result \in TransportResults :
            /\ last' = Call("post", auth_token, content_type, NoneObj,
                            _make_request(Url, XmlRequest, None, auth_token, content_type, NoneObj, result))
            /\ Session

----------------------------------------------------------------------------
(* The session context is mutated by the sign-in and sign-out flows and by *)
(* the client's configuration of its transport options                     *)

SignIn ==
    /\ last = Idle
    /\ \E t \in Tokens :
            /\ auth_token' = t
            /\ UNCHANGED <<version, http_options, last, gate>>

SignOut ==
    /\ last = Idle
    /\ auth_token # None
    /\ auth_token' = None
    /\ UNCHANGED <<version, http_options, last, gate>>

AddHttpOptions ==
    /\ last = Idle
    /\ \E options \in OptionDicts("session") :
            /\ http_options' = DictUpdate(http_options, options)
            /\ UNCHANGED <<auth_token, version, last, gate>>

\* the caller has taken the outcome of its call
Complete ==
    /\ last # Idle
    /\ last' = Idle
    /\ Session

Init ==
    /\ auth_token = None
    /\ version = Dotted(<<2, 9>>)
    /\ http_options = EmptyDict
    /\ last = Idle
    /\ gate = Idle

Next ==
    \/ SignIn
    \/ SignOut
    \/ AddHttpOptions
    \/ get_unauthenticated_request
    \/ get_request
    \/ delete_request
    \/ put_request
    \/ post_request
    \/ Complete

Spec == Init /\ [][Next]_vars

----------------------------------------------------------------------------
(* api(version) *)

DigitValue(c) == CHOOSE d \in 0..9 : DigitChar(d) = c

\* LooseVersion.parse on a string of digits and dots: the runs of digits, each
\* converted with int(); the dots and the empty pieces are dropped
RECURSIVE parse(_, _, _)
parse(vstring, components, run) ==
    IF vstring = << >> THEN components \o run
    ELSE IF Head(vstring) = "." THEN parse(Tail(vstring), components \o run, << >>)
    ELSE parse(Tail(vstring), components,
               <<(IF run = << >> THEN 0 ELSE run[1]) * 10 + DigitValue(Head(vstring))>>)

Version_per_character(vstring) ==
    [vstring |-> vstring,
     version |-> [i \in 1..Len(vstring) |-> IF vstring[i] = "." THEN -1 ELSE DigitValue(vstring[i])]]

\* Version(vstring): the string is kept for str(), the components are compared
Version(vstring) == [vstring |-> vstring, version |-> parse(vstring, << >>, << >>)]

\* the order of Python lists: the first differing element decides, and a proper
\* prefix is the smaller
RECURSIVE list_less(_, _)
list_less(a, b) ==
    IF b = << >> THEN FALSE
    ELSE IF a = << >> THEN TRUE
    ELSE IF a[1] # b[1] THEN a[1] < b[1]
    ELSE list_less(Tail(a), Tail(b))

version_too_low_as_documented(server_version, minimum_supported) ==
    list_less(minimum_supported.version, server_version.version)

\* server_version < minimum_supported
version_too_low(server_version, minimum_supported) ==
    list_less(server_version.version, minimum_supported.version)

\* the wrapped operation: it runs once, receives the arguments, reaches the
\* transport, and returns or raises as the operation does
func(args, behaviour) ==
    [calls |-> 1, received |-> <<args>>, transport_calls |-> 1, outcome |-> behaviour]

wrapper(minimum, args, behaviour) ==
    LET server_version == Version(version)
        minimum_supported == Version(minimum)
    IN  IF version_too_low(server_version, minimum_supported)
        THEN [calls |-> 0, received |-> << >>, transport_calls |-> 0,
              outcome |-> [kind |-> "raise", error |-> "EndpointUnavailableError",
                           message |-> <<server_version.vstring, minimum_supported.vstring>>]]
        ELSE func(args, behaviour)

\* a call of an operation decorated with @api(version=minimum)
api ==
    /\ gate = Idle
    /\ \E minimum \in VersionStrings, args \in Arguments, behaviour \in Behaviours :
            /\ gate' = [op |-> "api", server |-> version, minimum |-> minimum, args |-> args,
                        behaviour |-> behaviour] @@ wrapper(minimum, args, behaviour)
            /\ UNCHANGED <<auth_token, version, http_options, last>>

\* the caller has taken the outcome of its call
GateComplete ==
    /\ gate # Idle
    /\ gate' = Idle
    /\ UNCHANGED <<auth_token, version, http_options, last>>

\* the client adopts the version the server reports
UseServerVersion ==
    /\ gate = Idle
    /\ \E v \in VersionStrings :
            /\ version' = v
            /\ UNCHANGED <<auth_token, http_options, last, gate>>

InitGate ==
    /\ auth_token = None
    /\ version \in VersionStrings
    /\ http_options = EmptyDict
    /\ last = Idle
    /\ gate = Idle

NextGate ==
    \/ api
    \/ GateComplete
    \/ UseServerVersion

SpecGate == InitGate /\ [][NextGate]_vars

----------------------------------------------------------------------------
(* Properties *)

ReturningVerbs == {"get_unauthenticated", "get", "put", "post"}
AuthenticatedVerbs == {"get", "delete", "put", "post"}
Verbs == ReturningVerbs \cup {"delete"}

\* a gateway call has completed and the transport answered it with a response
Answered == last.op \in Verbs /\ last.response.type = "Response"

\* the headers the transport received
SentHeaders == last.sent["headers"]

\* C1: for get_unauthenticated_request, get_request, put_request and
\* post_request, a response whose status is 200, 201 or 204 is returned to the
\* caller as it is and no error is raised, whatever its body and encoding.
C1_SuccessReturnsResponse ==
    (/\ Answered
     /\ last.op \in ReturningVerbs
     /\ last.response.status_code \in {200, 201, 204})
    => (last.outcome.kind = "return" /\ last.value = last.response)

\* C2: for every verb, a response whose status is not 200, 201 or 204 makes the
\* call raise the ServerResponseError built from the response body, and nothing
\* is returned.
C2_FailureRaises ==
    (Answered /\ last.response.status_code \notin {200, 201, 204})
    => (/\ last.outcome = [kind |-> "raise", error |-> from_response(last.response.content)]
        /\ last.outcome.error.type = "ServerResponseError"
        /\ last.value = NoneObj)

C2_Witness ==
    /\ Answered
    /\ last.op = "delete"
    /\ last.response.status_code = 404
    /\ last.response.content # << >>
    /\ last.outcome.kind = "raise"

\* C5 as stated: the authentication header is present exactly when the token is
\* neither None nor empty, the content-type header exactly when the content
\* type is not None; each carries its input, and there is no other header.
C5_HeadersWhenNonEmpty ==
    (last.op \in Verbs)
    => (/\ ("x-tableau-auth" \in DOMAIN SentHeaders) <=> (last.token # None /\ last.token # "")
        /\ ("content-type" \in DOMAIN SentHeaders) <=> (last.content_type # None)
        /\ "x-tableau-auth" \in DOMAIN SentHeaders => SentHeaders["x-tableau-auth"] = last.token
        /\ "content-type" \in DOMAIN SentHeaders => SentHeaders["content-type"] = last.content_type
        /\ DOMAIN SentHeaders \subseteq {"x-tableau-auth", "content-type"})

\* C5 as amended: the authentication header is present exactly when the token
\* is not None (an empty token yields the header with an empty value), the
\* content-type header exactly when the content type is not None; each carries
\* its input, there is no other header, and two None inputs give the empty dict.
C5_HeadersWhenNotNone ==
    (last.op \in Verbs)
    => (/\ ("x-tableau-auth" \in DOMAIN SentHeaders) <=> (last.token # None)
        /\ ("content-type" \in DOMAIN SentHeaders) <=> (last.content_type # None)
        /\ "x-tableau-auth" \in DOMAIN SentHeaders => SentHeaders["x-tableau-auth"] = last.token
        /\ "content-type" \in DOMAIN SentHeaders => SentHeaders["content-type"] = last.content_type
        /\ DOMAIN SentHeaders \subseteq {"x-tableau-auth", "content-type"}
        /\ (last.token = None /\ last.content_type = None) => SentHeaders = EmptyDict)

C5_Witness ==
    /\ last.op = "put"
    /\ last.token = ""
    /\ last.content_type = "text/xml"
    /\ SentHeaders = [h \in {"x-tableau-auth", "content-type"} |->
                        IF h = "x-tableau-auth" THEN "" ELSE "text/xml"]

\* C6 as stated: in get_request with parameters, the transport receives every
\* key of the parameters and of http_options, and for every key in both it
\* receives the value of http_options.
C6_SessionWinsEveryKey ==
    (last.op = "get" /\ last.parameters # NoneObj)
    => (/\ DOMAIN last.parameters \subseteq DOMAIN last.sent
        /\ DOMAIN http_options \subseteq DOMAIN last.sent
        /\ \A k \in DOMAIN last.parameters \cap DOMAIN http_options :
              last.sent[k] = http_options[k])

\* C6 as amended: the transport receives every key of the parameters and of
\* http_options; for every key in both other than 'headers' it receives the
\* value of http_options, and under 'headers' it receives the headers computed
\* by _make_common_headers, whatever the parameters and http_options hold there.
C6_SessionWinsExceptHeaders ==
    (last.op = "get" /\ last.parameters # NoneObj)
    => (/\ DOMAIN last.parameters \subseteq DOMAIN last.sent
        /\ DOMAIN http_options \subseteq DOMAIN last.sent
        /\ \A k \in (DOMAIN last.parameters \cap DOMAIN http_options) \ {"headers"} :
              last.sent[k] = http_options[k]
        /\ last.sent["headers"] = _make_common_headers(last.token, last.content_type))

C6_Witness ==
    /\ last.op = "get"
    /\ last.parameters # NoneObj
    /\ "timeout" \in DOMAIN last.parameters \cap DOMAIN http_options
    /\ last.parameters["timeout"] # http_options["timeout"]
    /\ last.sent["timeout"] = http_options["timeout"]

\* C7: delete_request returns nothing, whatever response the transport
\* supplied, a success response with a body included.
C7_DeleteReturnsNothing ==
    (last.op = "delete") => (last.value = NoneObj)

C7_Witness ==
    /\ Answered
    /\ last.op = "delete"
    /\ last.response.status_code = 200
    /\ last.response.content # << >>
    /\ last.outcome.kind = "return"
    /\ last.value = NoneObj

\* C8: a gateway call leaves the session context (auth_token, version,
\* http_options) and the caller's parameters mapping as they were before it.
C8_CallMutatesNothing ==
    [][(last'.op \in Verbs)
       => (/\ auth_token' = auth_token
           /\ version' = version
           /\ http_options' = http_options
           /\ last'.parameters_after = last'.parameters)]_vars

\* C9: a response that declares no encoding is never decoded, so a success
\* response without encoding is returned normally whatever its bytes; the body
\* is decoded only when an encoding is declared and the status check has passed.
C9_NoEncodingNoDecode ==
    Answered
    => (/\ last.response.encoding = None
           => (/\ ~last.decoded
               /\ last.logged = << >>
               /\ last.response.status_code \in {200, 201, 204} => last.outcome.kind = "return")
        /\ last.decoded
           => (/\ last.response.encoding # None
               /\ last.response.status_code \in {200, 201, 204}))

C9_Witness ==
    /\ Answered
    /\ last.response.encoding = None
    /\ last.response.status_code = 200
    /\ ~decode_utf8(last.response.content).ok
    /\ last.outcome.kind = "return"

\* the value of the authentication header the transport received, None without one
SentToken(call) ==
    IF "x-tableau-auth" \in DOMAIN call.sent["headers"]
    THEN call.sent["headers"]["x-tableau-auth"]
    ELSE None

\* C10: every request dispatched by get_request, put_request, post_request or
\* delete_request carries the token the session holds when it is dispatched
\* (no authentication header when the session holds none), and a request
\* dispatched by get_unauthenticated_request carries no authentication header.
C10_TokenAtDispatch ==
    [][/\ (last'.op \in AuthenticatedVerbs) => (SentToken(last') = auth_token)
       /\ (last'.op = "get_unauthenticated") => (SentToken(last') = None)]_vars

C10_Witness ==
    /\ last.op = "get"
    /\ auth_token = "t2"
    /\ http_options # EmptyDict
    /\ SentToken(last) = "t2"

----------------------------------------------------------------------------
(* Properties of api(version) *)

\* the positions of the dots of a version string, and its dot-separated fields
DotsOf(s) == {i \in 1..Len(s) : s[i] = "."}
FieldCount(s) == Cardinality(DotsOf(s)) + 1
FieldStart(s, k) ==
    IF k = 1 THEN 1
    ELSE 1 + CHOOSE d \in DotsOf(s) : Cardinality({e \in DotsOf(s) : e < d}) = k - 2
FieldEnd(s, k) ==
    IF k = FieldCount(s) THEN Len(s)
    ELSE (CHOOSE d \in DotsOf(s) : Cardinality({e \in DotsOf(s) : e < d}) = k - 1) - 1

RECURSIVE Power10(_)
Power10(n) == IF n = 0 THEN 1 ELSE 10 * Power10(n - 1)

RECURSIVE DecimalSum(_, _)
DecimalSum(s, i) ==
    IF i > Len(s) THEN 0
    ELSE (CHOOSE d \in 0..9 : DigitChar(d) = s[i]) * Power10(Len(s) - i) + DecimalSum(s, i + 1)

\* the number that the k-th field of a version string denotes
FieldNumber(s, k) == DecimalSum(SubSeq(s, FieldStart(s, k), FieldEnd(s, k)), 1)

\* a is lower than b: at the first field where they differ a has the smaller
\* number, or a ends there and b goes on
NumericallyLower(a, b) ==
    \E i \in 1..FieldCount(b) :
        /\ \A j \in 1..(i - 1) : j <= FieldCount(a) /\ FieldNumber(a, j) = FieldNumber(b, j)
        /\ i > FieldCount(a) \/ FieldNumber(a, i) < FieldNumber(b, i)

====
